---- MODULE Spec2Model ----
(***************************************************************************)
(* A model of the poker-basic game: Player.place_bet and the decision      *)
(* policies (player.py), the betting round, the showdown and the hand loop *)
(* (poker_game.py), over the 52-card deck (card.py, deck.py).              *)
(*                                                                         *)
(* Floating-point quantities of the automated policy are kept as exact     *)
(* rationals: the aggression in tenths, the hand strength in 130ths.       *)
(***************************************************************************)
EXTENDS Integers, Sequences, FiniteSets, TLC

(***************************************************************************)
(* Bounds of the model.                                                    *)
(***************************************************************************)
MaxPlayers == 2         \* human_players + ai_players ranges over 1..MaxPlayers
MaxStack == 2           \* starting_chips: 20, .. 10*MaxStack; stacks of one hand: 10, .. 10*MaxStack
MaxShuffle == 2         \* outcomes of random.shuffle considered: 0..MaxShuffle
MaxHands == 2           \* hands played by play_game before the model stops
MaxBetStack == 5        \* place_bet alone: chips in 0..MaxBetStack, amount in -MaxBetStack..MaxBetStack+2
MaxDecideStack == 5     \* one decision alone: chips range over 0, 10, .. 10*MaxDecideStack
MaxHandCards == 2       \* hand strength alone: hands of 0..MaxHandCards cards
MaxSeats == 3           \* setup_hand alone: rosters of 1..MaxSeats players

(***************************************************************************)
(* Generic helpers.                                                        *)
(***************************************************************************)
Max(a, b) == IF a >= b THEN a ELSE b

Min(a, b) == IF a <= b THEN a ELSE b

RECURSIVE SumSeq(_)
SumSeq(s) == IF s = <<>> THEN 0 ELSE Head(s) + SumSeq(Tail(s))

RECURSIVE MaxSeq(_)
MaxSeq(s) == IF Len(s) = 1 THEN s[1] ELSE Max(s[1], MaxSeq(Tail(s)))

(***************************************************************************)
(* card.py                                                                 *)
(***************************************************************************)
SUITS == <<"Hearts", "Diamonds", "Clubs", "Spades">>

RANKS == <<"2", "3", "4", "5", "6", "7", "8", "9", "10", "J", "Q", "K", "A">>

Card(rank, suit) == [rank |-> rank, suit |-> suit]

\* RANKS.index(rank): the 0-based position of the rank
get_value(card) == (CHOOSE i \in 1..Len(RANKS) : RANKS[i] = card.rank) - 1

(***************************************************************************)
(* deck.py                                                                 *)
(***************************************************************************)
\* Deck.reset: for suit in SUITS: for rank in RANKS: append
DeckReset ==
    [i \in 1..(Len(SUITS) * Len(RANKS)) |->
        Card(RANKS[((i - 1) % Len(RANKS)) + 1], SUITS[((i - 1) \div Len(RANKS)) + 1])]

\* random.shuffle: a permutation of the cards.  Outcome 0 leaves the order,
\* outcome 1 reverses it, outcome k >= 2 interleaves the suits (cards of equal
\* rank become neighbours) and cuts the deck 4*(k-2) cards from the top.
ShufflePos(k, i, n) ==
    IF k = 0 THEN i
    ELSE IF k = 1 THEN n + 1 - i
    ELSE LET j == (i - 1 + 4 * (k - 2)) % n
         IN  (j % 4) * 13 + (j \div 4) + 1

Shuffle(cards, k) == [i \in 1..Len(cards) |-> cards[ShufflePos(k, i, Len(cards))]]

\* Deck.deal_card: cards.pop() removes and returns the LAST card
DealTop(cards) == cards[Len(cards)]

DealRest(cards) == SubSeq(cards, 1, Len(cards) - 1)

(***************************************************************************)
(* player.py: Player                                                       *)
(***************************************************************************)
\* Player.__init__ / AIPlayer.__init__ (aggression in tenths, clamped to 0..10)
NewPlayer(name, kind, chips, aggression) ==
    [name |-> name, kind |-> kind, chips |-> chips, hand |-> <<>>,
     current_bet |-> 0, has_folded |-> FALSE, is_all_in |-> FALSE,
     aggression |-> Max(0, Min(10, aggression))]

\* reset_for_new_hand leaving the folded flag as it is
reset_keeps_folded(p) ==
    [p EXCEPT !.hand = <<>>, !.current_bet = 0, !.is_all_in = FALSE]

reset_for_new_hand(p) ==
    [p EXCEPT !.hand = <<>>, !.current_bet = 0,
              !.has_folded = FALSE, !.is_all_in = FALSE]

add_card(p, card) == [p EXCEPT !.hand = Append(@, card)]

\* place_bet without the cut to the stack: an all-in commits the amount asked
place_bet_unclamped(p, amount) ==
    IF amount >= p.chips
    THEN [bet_amount |-> amount,
          player |-> [p EXCEPT !.is_all_in = TRUE, !.chips = 0,
                               !.current_bet = @ + amount]]
    ELSE [bet_amount |-> amount,
          player |-> [p EXCEPT !.chips = @ - amount,
                               !.current_bet = @ + amount]]

\* place_bet that forgets to mark the player all-in
place_bet_no_flag(p, amount) ==
    IF amount >= p.chips
    THEN [bet_amount |-> p.chips,
          player |-> [p EXCEPT !.chips = 0, !.current_bet = @ + p.chips]]
    ELSE [bet_amount |-> amount,
          player |-> [p EXCEPT !.chips = @ - amount,
                               !.current_bet = @ + amount]]

\* place_bet with amount > chips for amount >= chips
place_bet_strict(p, amount) ==
    IF amount > p.chips
    THEN [bet_amount |-> p.chips,
          player |-> [p EXCEPT !.is_all_in = TRUE, !.chips = 0,
                               !.current_bet = @ + p.chips]]
    ELSE [bet_amount |-> amount,
          player |-> [p EXCEPT !.chips = @ - amount,
                               !.current_bet = @ + amount]]

\* place_bet returns the amount committed together with the updated player
place_bet(p, amount) ==
    IF amount >= p.chips
    THEN [bet_amount |-> p.chips,
          player |-> [p EXCEPT !.is_all_in = TRUE, !.chips = 0,
                               !.current_bet = @ + p.chips]]
    ELSE [bet_amount |-> amount,
          player |-> [p EXCEPT !.chips = @ - amount,
                               !.current_bet = @ + amount]]

\* a fold that also throws the cards away
fold_mucks(p) == [p EXCEPT !.has_folded = TRUE, !.hand = <<>>]

fold(p) == [p EXCEPT !.has_folded = TRUE]

can_bet(p) == p.chips > 0 /\ ~p.has_folded /\ ~p.is_all_in

(***************************************************************************)
(* player.py: AIPlayer                                                     *)
(***************************************************************************)
\* card values of a hand, in draw order
HandValues(hand) == [i \in 1..Len(hand) |-> get_value(hand[i])]

\* values.sort(reverse=True); values[0] == values[1]
TopTwoEqual(hand) ==
    \E i, j \in 1..Len(hand) :
        /\ i # j
        /\ get_value(hand[i]) = MaxSeq(HandValues(hand))
        /\ get_value(hand[j]) = MaxSeq(HandValues(hand))

\* _evaluate_hand_strength with the values sorted ascending: values[0] is the
\* lowest card
evaluate_hand_strength_ascending(hand) ==
    IF Len(hand) < 2 THEN 65
    ELSE LET low == 0 - MaxSeq([i \in 1..Len(hand) |-> 0 - get_value(hand[i])])
             lows == {i \in 1..Len(hand) : get_value(hand[i]) = low}
         IN  IF Cardinality(lows) >= 2 THEN 91 + 3 * low ELSE 39 + 4 * low

\* _evaluate_hand_strength, in 130ths:
\*   0.5 = 65/130,  0.7 + (v/13)*0.3 = (91+3v)/130,  0.3 + (v/13)*0.4 = (39+4v)/130
evaluate_hand_strength(hand) ==
    IF Len(hand) < 2 THEN 65
    ELSE IF TopTwoEqual(hand) THEN 91 + 3 * MaxSeq(HandValues(hand))
    ELSE 39 + 4 * MaxSeq(HandValues(hand))

\* call_amount taken to be the whole table bet
CallAmountTable(p, current_bet) == current_bet

\* call_amount without the test current_bet > self.current_bet
CallAmountSigned(p, current_bet) == current_bet - p.current_bet

\* call_amount of both policies
CallAmount(p, current_bet) ==
    IF current_bet > p.current_bet THEN current_bet - p.current_bet ELSE 0

\* hand_strength < fold_threshold, with bet_ratio = call_amount / max(chips, 1) and
\* fold_threshold = 0.2 + bet_ratio*0.3.  Exactly: s/130 < (2M + 3c)/(10M).
\* Where the two sides are equal as rationals (bet_ratio = (s-26)/39) the
\* double-precision evaluation decides; it yields "less" for the strengths of
\* TieRoundsBelow and "not less" for every other strength.
TieRoundsBelow == {43, 51, 55, 94, 103, 112, 118, 127}

BelowFoldThreshold(s, chips, call_amount) ==
    LET M == Max(chips, 1)
    IN  \/ s * M < 13 * (2 * M + 3 * call_amount)
        \/ /\ s * M = 13 * (2 * M + 3 * call_amount)
           /\ s \in TieRoundsBelow

\* hand_strength > raise_threshold = 0.6 + (0.4 - aggression*0.4):
\* s/130 > (100 - 4A)/100 with the aggression A in tenths (never equal)
AboveRaiseThreshold(s, aggression) == 10 * s > 13 * (100 - 4 * aggression)

\* int(minimum_bet * (1 + raise_multiplier * 3)), raise_multiplier = aggression * s.
\* int() truncates.  The double-precision product falls just below the integer
\* 31 for aggression 1.0 with a pair of twos (s = 91) at minimum_bet 10.
RaiseBase(s, aggression, minimum_bet) ==
    LET exact == (minimum_bet * (1300 + 3 * aggression * s)) \div 1300
    IN  IF aggression = 10 /\ s = 91 /\ minimum_bet = 10 THEN exact - 1 ELSE exact

Fold == [decision |-> "fold", amount |-> 0]

Call(amount) == [decision |-> "call", amount |-> amount]

Raise(amount) == [decision |-> "raise", amount |-> amount]

\* AIPlayer.make_decision
ai_make_decision(p, current_bet, minimum_bet) ==
    LET call_amount == CallAmount(p, current_bet)
        hand_strength == evaluate_hand_strength(p.hand)
        max_raise == p.chips - call_amount
        raise_amount ==
            Max(Min(RaiseBase(hand_strength, p.aggression, minimum_bet), max_raise),
                minimum_bet)
    IN  IF BelowFoldThreshold(hand_strength, p.chips, call_amount) /\ call_amount > 0
        THEN Fold
        ELSE IF /\ AboveRaiseThreshold(hand_strength, p.aggression)
                /\ p.chips > call_amount + minimum_bet
        THEN Raise(call_amount + raise_amount)
        ELSE Call(call_amount)

(***************************************************************************)
(* Console input (builtins.input): a line is a sequence of characters.     *)
(***************************************************************************)
UPPER == <<"A", "B", "C", "D", "E", "F", "G", "H", "I", "J", "K", "L", "M",
           "N", "O", "P", "Q", "R", "S", "T", "U", "V", "W", "X", "Y", "Z">>

LOWER == <<"a", "b", "c", "d", "e", "f", "g", "h", "i", "j", "k", "l", "m",
           "n", "o", "p", "q", "r", "s", "t", "u", "v", "w", "x", "y", "z">>

DIGITS == <<"0", "1", "2", "3", "4", "5", "6", "7", "8", "9">>

\* str.lower
Lower(line) ==
    [i \in 1..Len(line) |->
        IF \E k \in 1..Len(UPPER) : UPPER[k] = line[i]
        THEN LOWER[CHOOSE k \in 1..Len(UPPER) : UPPER[k] = line[i]]
        ELSE line[i]]

\* str.strip
RECURSIVE Strip(_)
Strip(line) ==
    IF line = <<>> THEN <<>>
    ELSE IF Head(line) = " " THEN Strip(Tail(line))
    ELSE IF line[Len(line)] = " " THEN Strip(SubSeq(line, 1, Len(line) - 1))
    ELSE line

IsDigit(ch) == \E k \in 1..Len(DIGITS) : DIGITS[k] = ch

RECURSIVE DigitsValue(_)
DigitsValue(ds) ==
    IF ds = <<>> THEN 0
    ELSE 10 * DigitsValue(SubSeq(ds, 1, Len(ds) - 1))
         + (CHOOSE k \in 1..Len(DIGITS) : DIGITS[k] = ds[Len(ds)]) - 1

\* int(line): surrounding blanks are ignored, an optional sign, then digits;
\* anything else is a ValueError (ok = FALSE)
ParseInt(line) ==
    LET t == Strip(line)
        signed == t # <<>> /\ t[1] \in {"-", "+"}
        ds == IF signed THEN Tail(t) ELSE t
    IN  IF ds # <<>> /\ \A i \in 1..Len(ds) : IsDigit(ds[i])
        THEN [ok |-> TRUE,
              value |-> IF signed /\ t[1] = "-" THEN 0 - DigitsValue(ds)
                        ELSE DigitsValue(ds)]
        ELSE [ok |-> FALSE, value |-> 0]

\* lines typed at "Choose action (f)old, (c)all, (r)aise: "
ActionLines ==
    {<<"f">>, <<"F", " ">>, <<"c">>, <<" ", "C">>, <<"r">>, <<"R">>,
     <<"x">>, <<>>, <<"f", "c">>}

\* lines typed at "Raise amount (max ..): "
AmountLines ==
    {<<"1", "0">>, <<"2", "0">>, <<" ", "3", "0">>, <<"5">>, <<"-", "1", "0">>,
     <<"9", "9">>, <<"a", "l", "l">>, <<"1", "0", ".", "5">>, <<>>}

\* lines typed at "Continue to next hand? (y/n): "
ContinueLines == {<<"y">>, <<"Y", " ">>, <<"n">>, <<>>}

(***************************************************************************)
(* player.py: HumanPlayer.make_decision, one pass of its input loop        *)
(***************************************************************************)
\* action = input(...).lower().strip()
ReadAction(line) == Strip(Lower(line))

\* the action prompt with a default: any other line calls
HumanActionDefaultCall(p, call_amount, line) ==
    LET action == Strip(Lower(line))
    IN  IF action = <<"f">> THEN "fold"
        ELSE IF action = <<"r">> THEN
            IF call_amount >= p.chips THEN "none" ELSE "amount"
        ELSE "call"

\* the decision a line at the action prompt returns, or "none": 'r' goes on
\* to the amount prompt ("amount") unless the player cannot even call
HumanAction(p, call_amount, line) ==
    LET action == ReadAction(line)
    IN  IF action = <<"f">> THEN "fold"
        ELSE IF action = <<"c">> THEN "call"
        ELSE IF action = <<"r">> THEN
            IF call_amount >= p.chips THEN "none" ELSE "amount"
        ELSE "none"

\* the amount prompt without the check against max_raise
HumanRaiseNoMax(p, call_amount, minimum_bet, line) ==
    LET parsed == ParseInt(line)
    IN  /\ parsed.ok
        /\ ~(parsed.value < minimum_bet)

\* the amount prompt without the check against minimum_bet
HumanRaiseNoMin(p, call_amount, minimum_bet, line) ==
    LET parsed == ParseInt(line)
        max_raise == p.chips - call_amount
    IN  /\ parsed.ok
        /\ ~(parsed.value > max_raise)

\* raise_amount = int(input(...)) and its two range checks: TRUE when the
\* raise is returned
HumanRaiseAccepted(p, call_amount, minimum_bet, line) ==
    LET parsed == ParseInt(line)
        max_raise == p.chips - call_amount
    IN  /\ parsed.ok
        /\ ~(parsed.value < minimum_bet)
        /\ ~(parsed.value > max_raise)

(***************************************************************************)
(* poker_game.py: PokerGame                                                *)
(***************************************************************************)
minimum_bet == 10

ai_names == <<"Alice", "Bob", "Charlie", "Diana", "Eve">>

\* a name is a pair <<base, number>>; number 0 stands for no number
HumanName(human_players, i) ==
    IF human_players > 1 THEN <<"Player", i + 1>> ELSE <<"You", 0>>

AIName(i) ==
    <<ai_names[(i % Len(ai_names)) + 1],
      IF i >= Len(ai_names) THEN (i \div Len(ai_names)) + 1 ELSE 0>>

\* aggression = 0.3 + (i * 0.2) % 0.7, in tenths
AIAggression(i) == 3 + ((2 * i) % 7)

\* PokerGame.__init__: the humans first, then the AI players
NewGame(human_players, ai_players, starting_chips) ==
    [i \in 1..(human_players + ai_players) |->
        IF i <= human_players
        THEN NewPlayer(HumanName(human_players, i - 1), "Human", starting_chips, 0)
        ELSE NewPlayer(AIName(i - human_players - 1), "AI", starting_chips,
                       AIAggression(i - human_players - 1))]

\* the roster filter keeping players with no chips
HasChipsOrNone(p) == p.chips >= 0

\* setup_hand: p.chips > 0
HasChips(p) == p.chips > 0

\* setup_hand dropping the players with no chips without resetting anyone
SetupRosterNoReset(ps) == SelectSeq(ps, HasChips)

\* setup_hand: reset every player, then drop the players with no chips
SetupRoster(ps) ==
    SelectSeq([i \in 1..Len(ps) |-> reset_for_new_hand(ps[i])], HasChips)

\* deal_cards: cards_per_player rounds over the roster, one card each while
\* the deck has cards; j counts the cards handed out so far
RECURSIVE DealFrom(_, _, _, _)
DealFrom(ps, cards, j, total) ==
    IF j = total THEN [players |-> ps, cards |-> cards]
    ELSE IF Len(cards) > 0
    THEN DealFrom([ps EXCEPT ![(j % Len(ps)) + 1] = add_card(@, DealTop(cards))],
                  DealRest(cards), j + 1, total)
    ELSE DealFrom(ps, cards, j + 1, total)

deal_cards(ps, cards, cards_per_player) ==
    DealFrom(ps, cards, 0, cards_per_player * Len(ps))

NotFolded(ps) == {i \in 1..Len(ps) : ~ps[i].has_folded}

\* the check after each player with < for <=
OnlyOneRemainsStrict(ps) == Cardinality({i \in 1..Len(ps) : ~ps[i].has_folded}) < 1

\* the check after each player: len(active_players) <= 1
OnlyOneRemains(ps) == Cardinality(NotFolded(ps)) <= 1

\* not p.has_folded and not p.is_all_in
ActiveBetting(ps) == {i \in 1..Len(ps) : ~ps[i].has_folded /\ ~ps[i].is_all_in}

\* p.current_bet == self.current_bet or p.has_folded or p.is_all_in
Matched(p, table_bet) ==
    p.current_bet = table_bet \/ p.has_folded \/ p.is_all_in

\* needs_to_act without its third case, the opening of the round
NeedsToActNoOpening(ps, i, table_bet, raiser, acted) ==
    \/ ps[i].current_bet < table_bet
    \/ i = raiser

\* needs_to_act of betting_round (last_raiser 0 is None)
NeedsToAct(ps, i, table_bet, raiser, acted) ==
    \/ ps[i].current_bet < table_bet
    \/ i = raiser
    \/ (table_bet = 0 /\ i \notin acted)

\* betting_round without the special check for the last raiser
RaiserNeverSkips(ps, i, table_bet, raiser) == FALSE

\* the special check for the last raiser: every other player has matched
RaiserSkips(ps, i, table_bet, raiser) ==
    /\ i = raiser
    /\ \A j \in 1..Len(ps) : j # i => Matched(ps[j], table_bet)

\* the test at the end of a sweep without its last case: a sweep in which
\* somebody acted is always followed by another
BettingCompleteWhenIdle(ps, table_bet, had_action) ==
    IF Cardinality(ActiveBetting(ps)) <= 1 THEN TRUE
    ELSE ~had_action

\* the test at the end of a sweep
BettingComplete(ps, table_bet, had_action) ==
    IF Cardinality(ActiveBetting(ps)) <= 1 THEN TRUE
    ELSE IF ~had_action THEN TRUE
    ELSE \A j \in 1..Len(ps) : Matched(ps[j], table_bet)

\* the showdown loop with >= for >: the last of equals takes over
RECURSIVE BestPlayerLast(_, _, _, _)
BestPlayerLast(ps, remaining, best_player, best_value) ==
    IF remaining = <<>> THEN best_player
    ELSE LET max_card_value == MaxSeq(HandValues(ps[Head(remaining)].hand))
         IN  IF max_card_value >= best_value
             THEN BestPlayerLast(ps, Tail(remaining), Head(remaining), max_card_value)
             ELSE BestPlayerLast(ps, Tail(remaining), best_player, best_value)

\* determine_winner, showdown loop: the first player of the remaining ones
\* whose highest card beats best_value takes over
RECURSIVE BestPlayer(_, _, _, _)
BestPlayer(ps, remaining, best_player, best_value) ==
    IF remaining = <<>> THEN best_player
    ELSE LET max_card_value == MaxSeq(HandValues(ps[Head(remaining)].hand))
         IN  IF max_card_value > best_value
             THEN BestPlayer(ps, Tail(remaining), Head(remaining), max_card_value)
             ELSE BestPlayer(ps, Tail(remaining), best_player, best_value)

\* every player, folded or not
ActivePlayersAll(ps) == [i \in 1..Len(ps) |-> i]

\* the non-folded players in seating order
ActivePlayers(ps) ==
    LET NotFoldedAt(i) == ~ps[i].has_folded
    IN  SelectSeq([i \in 1..Len(ps) |-> i], NotFoldedAt)

\* the player determine_winner pays (0: max() of an empty hand raises ValueError)
Winner(ps) ==
    LET active_players == ActivePlayers(ps)
    IN  IF Len(active_players) = 1 THEN active_players[1]
        ELSE IF \E k \in 1..Len(active_players) : ps[active_players[k]].hand = <<>>
        THEN 0
        ELSE BestPlayer(ps, active_players, 0, -1)

SumChips(ps) == SumSeq([i \in 1..Len(ps) |-> ps[i].chips])

SumBets(ps) == SumSeq([i \in 1..Len(ps) |-> ps[i].current_bet])

(***************************************************************************)
(* State.                                                                  *)
(***************************************************************************)
VARIABLES
    players,            \* PokerGame.players: the roster, in seating order
    deck,               \* Deck.cards
    pot,                \* PokerGame.pot
    current_bet,        \* PokerGame.current_bet: the table bet
    dealer_position,    \* PokerGame.dealer_position (0-based)
    hand_count,         \* play_game: hand_count
    pc,                 \* where the program stands
    idx,                \* betting_round: position of the for loop (1-based)
    last_raiser,        \* betting_round: last_raiser (0 is None)
    players_acted,      \* betting_round: players_acted
    all_called,         \* betting_round: all_called
    round_had_action,   \* betting_round: round_had_action
    call_amount,        \* HumanPlayer.make_decision: call_amount
    decision,           \* betting_round: decision, amount as make_decision returned them
    console,            \* the console event being handled (none once it is dealt with)
    exception           \* the exception that ended the program, or "none"

vars == <<players, deck, pot, current_bet, dealer_position, hand_count, pc, idx,
          last_raiser, players_acted, all_called, round_had_action, call_amount,
          decision, console, exception>>

table == <<pot, current_bet, dealer_position>>

round_locals == <<idx, last_raiser, players_acted, all_called, round_had_action>>

NoDecision == [decision |-> "none", amount |-> 0]

NoInput == [event |-> "none", line |-> <<>>]

Line(line) == [event |-> "line", line |-> line]

Interrupt == [event |-> "KeyboardInterrupt", line |-> <<>>]

EndOfInput == [event |-> "EOFError", line |-> <<>>]

\* the state PokerGame(human_players, ai_players, starting_chips) constructs,
\* at the top of play_game
Constructed(human_players, ai_players, starting_chips) ==
    /\ players = NewGame(human_players, ai_players, starting_chips)
    /\ deck = DeckReset
    /\ pot = 0
    /\ current_bet = 0
    /\ dealer_position = 0
    /\ hand_count = 0
    /\ idx = 1
    /\ last_raiser = 0
    /\ players_acted = {}
    /\ all_called = TRUE
    /\ round_had_action = FALSE
    /\ call_amount = 0
    /\ decision = NoDecision
    /\ console = NoInput
    /\ exception = "none"

Init ==
    /\ \E human_players \in 0..MaxPlayers, ai_players \in 0..MaxPlayers, stack \in 2..MaxStack :
          /\ human_players + ai_players \in 1..MaxPlayers
          /\ Constructed(human_players, ai_players, 10 * stack)
    /\ pc = "play_hand"

(***************************************************************************)
(* play_game / play_hand                                                   *)
(***************************************************************************)
\* play_game: hand_count += 1; play_hand: setup_hand().  With fewer than two
\* players left setup_hand returns False, play_hand returns False and
\* play_game leaves its loop.
SetupHand ==
    /\ pc = "play_hand"
    /\ hand_count < MaxHands
    /\ hand_count' = hand_count + 1
    /\ \E k \in 0..MaxShuffle : deck' = Shuffle(DeckReset, k)
    /\ pot' = 0
    /\ current_bet' = 0
    /\ players' = SetupRoster(players)
    /\ pc' = IF Len(players') < 2 THEN "game_over" ELSE "deal_cards"
    /\ console' = NoInput
    /\ UNCHANGED <<dealer_position, round_locals, call_amount, decision, exception>>

\* play_hand: deal_cards(); display_game_state()
DealCards ==
    /\ pc = "deal_cards"
    /\ LET dealt == deal_cards(players, deck, 2)
       IN  /\ players' = dealt.players
           /\ deck' = dealt.cards
    /\ pc' = "betting_round"
    /\ UNCHANGED <<table, hand_count, round_locals, call_amount, decision, console,
                   exception>>

(***************************************************************************)
(* betting_round                                                           *)
(***************************************************************************)
\* entry: return at once unless two players can act, else start the first sweep
EnterBettingRound ==
    /\ pc = "betting_round"
    /\ IF Cardinality(ActiveBetting(players)) <= 1
       THEN /\ pc' = "determine_winner"
            /\ UNCHANGED round_locals
       ELSE /\ pc' = "sweep"
            /\ idx' = 1
            /\ last_raiser' = 0
            /\ players_acted' = {}
            /\ all_called' = TRUE
            /\ round_had_action' = FALSE
    /\ UNCHANGED <<players, deck, table, hand_count, call_amount, decision, console,
                   exception>>

\* the for loop without its `continue` for folded and all-in players
AskedAnyone(i) ==
    /\ NeedsToAct(players, i, current_bet, last_raiser, players_acted)
    /\ ~RaiserSkips(players, i, current_bet, last_raiser)

\* the player under the for loop is asked for a decision
Asked(i) ==
    /\ ~players[i].has_folded
    /\ ~players[i].is_all_in
    /\ NeedsToAct(players, i, current_bet, last_raiser, players_acted)
    /\ ~RaiserSkips(players, i, current_bet, last_raiser)

\* one pass of the for loop that asks nobody: a folded or all-in player and a
\* satisfied last raiser `continue`; a player with nothing to do falls through
\* to the check for a single remaining player
PassPlayer ==
    /\ pc = "sweep"
    /\ idx <= Len(players)
    /\ ~Asked(idx)
    /\ IF /\ ~players[idx].has_folded
          /\ ~players[idx].is_all_in
          /\ ~NeedsToAct(players, idx, current_bet, last_raiser, players_acted)
          /\ OnlyOneRemains(players)
       THEN pc' = "determine_winner" /\ idx' = idx
       ELSE pc' = "sweep" /\ idx' = idx + 1
    /\ UNCHANGED <<players, deck, table, hand_count, last_raiser, players_acted,
                   all_called, round_had_action, call_amount, decision, console,
                   exception>>

\* make_decision of an AIPlayer that places its bet itself
AskAICommits ==
    /\ pc = "sweep"
    /\ idx <= Len(players)
    /\ Asked(idx)
    /\ players[idx].kind = "AI"
    /\ decision' = ai_make_decision(players[idx], current_bet, minimum_bet)
    /\ players' = [players EXCEPT ![idx] = place_bet(@, decision'.amount).player]
    /\ pc' = "process"
    /\ UNCHANGED <<deck, table, hand_count, round_locals, call_amount,
                   console, exception>>

\* player.make_decision of an AIPlayer returns at once
AskAI ==
    /\ pc = "sweep"
    /\ idx <= Len(players)
    /\ Asked(idx)
    /\ players[idx].kind = "AI"
    /\ decision' = ai_make_decision(players[idx], current_bet, minimum_bet)
    /\ pc' = "process"
    /\ UNCHANGED <<players, deck, table, hand_count, round_locals, call_amount,
                   console, exception>>

\* player.make_decision of a HumanPlayer: call_amount, then the input loop
AskHuman ==
    /\ pc = "sweep"
    /\ idx <= Len(players)
    /\ Asked(idx)
    /\ players[idx].kind = "Human"
    /\ call_amount' = CallAmount(players[idx], current_bet)
    /\ pc' = "input_action"
    /\ UNCHANGED <<players, deck, table, hand_count, round_locals, decision,
                   console, exception>>

\* a line at the action prompt
HumanReadAction ==
    /\ pc = "input_action"
    /\ \E line \in ActionLines :
          /\ console' = Line(line)
          /\ LET act == HumanAction(players[idx], call_amount, line)
             IN  IF act = "fold" THEN decision' = Fold /\ pc' = "process"
                 ELSE IF act = "call"
                 THEN decision' = Call(call_amount) /\ pc' = "process"
                 ELSE IF act = "amount"
                 THEN decision' = decision /\ pc' = "input_amount"
                 ELSE decision' = decision /\ pc' = "input_action"
    /\ UNCHANGED <<players, deck, table, hand_count, round_locals, call_amount,
                   exception>>

\* a line at the amount prompt
HumanReadAmount ==
    /\ pc = "input_amount"
    /\ \E line \in AmountLines :
          /\ console' = Line(line)
          /\ IF HumanRaiseAccepted(players[idx], call_amount, minimum_bet, line)
             THEN /\ decision' = Raise(call_amount + ParseInt(line).value)
                  /\ pc' = "process"
             ELSE /\ decision' = decision
                  /\ pc' = "input_action"
    /\ UNCHANGED <<players, deck, table, hand_count, round_locals, call_amount,
                   exception>>

\* KeyboardInterrupt at either prompt taken as a fold
HumanInterruptFolds ==
    /\ pc \in {"input_action", "input_amount"}
    /\ console' = Interrupt
    /\ decision' = Fold
    /\ pc' = "process"
    /\ UNCHANGED <<players, deck, table, hand_count, round_locals, call_amount,
                   exception>>

\* KeyboardInterrupt at either prompt: except (ValueError, KeyboardInterrupt)
HumanInterrupt ==
    /\ pc \in {"input_action", "input_amount"}
    /\ console' = Interrupt
    /\ pc' = "input_action"
    /\ UNCHANGED <<players, deck, table, hand_count, round_locals, call_amount,
                   decision, exception>>

\* end of input at a prompt: input() raises EOFError, which nothing catches
EndOfConsole ==
    /\ pc \in {"input_action", "input_amount", "continue_prompt"}
    /\ console' = EndOfInput
    /\ exception' = "EOFError"
    /\ pc' = "crashed"
    /\ UNCHANGED <<players, deck, table, hand_count, round_locals, call_amount,
                   decision>>

\* the decision carried out without players_acted.clear() after a raise
ProcessDecisionKeepsActed ==
    /\ pc = "process"
    /\ LET bet == place_bet(players[idx], decision.amount)
       IN  /\ players' =
                IF decision.decision = "fold"
                THEN [players EXCEPT ![idx] = fold(@)]
                ELSE IF decision.decision = "call" /\ ~(decision.amount > 0)
                THEN players
                ELSE [players EXCEPT ![idx] = bet.player]
           /\ pot' =
                IF \/ decision.decision = "raise"
                   \/ (decision.decision = "call" /\ decision.amount > 0)
                THEN pot + bet.bet_amount
                ELSE pot
           /\ current_bet' =
                IF decision.decision = "raise" THEN bet.player.current_bet
                ELSE current_bet
    /\ last_raiser' = IF decision.decision = "raise" THEN idx ELSE last_raiser
    /\ all_called' = IF decision.decision = "raise" THEN FALSE ELSE all_called
    /\ players_acted' =
          players_acted \cup {idx}
    /\ round_had_action' = TRUE
    /\ IF OnlyOneRemains(players')
       THEN pc' = "determine_winner" /\ idx' = idx
       ELSE pc' = "sweep" /\ idx' = idx + 1
    /\ console' = NoInput
    /\ UNCHANGED <<deck, dealer_position, hand_count, call_amount, decision, exception>>

\* the decision is carried out, then the check for a single remaining player
ProcessDecision ==
    /\ pc = "process"
    /\ LET bet == place_bet(players[idx], decision.amount)
       IN  /\ players' =
                IF decision.decision = "fold"
                THEN [players EXCEPT ![idx] = fold(@)]
                ELSE IF decision.decision = "call" /\ ~(decision.amount > 0)
                THEN players
                ELSE [players EXCEPT ![idx] = bet.player]
           /\ pot' =
                IF \/ decision.decision = "raise"
                   \/ (decision.decision = "call" /\ decision.amount > 0)
                THEN pot + bet.bet_amount
                ELSE pot
           /\ current_bet' =
                IF decision.decision = "raise" THEN bet.player.current_bet
                ELSE current_bet
    /\ last_raiser' = IF decision.decision = "raise" THEN idx ELSE last_raiser
    /\ all_called' = IF decision.decision = "raise" THEN FALSE ELSE all_called
    /\ players_acted' =
          IF decision.decision = "raise" THEN {idx} ELSE players_acted \cup {idx}
    /\ round_had_action' = TRUE
    /\ IF OnlyOneRemains(players')
       THEN pc' = "determine_winner" /\ idx' = idx
       ELSE pc' = "sweep" /\ idx' = idx + 1
    /\ console' = NoInput
    /\ UNCHANGED <<deck, dealer_position, hand_count, call_amount, decision, exception>>

\* the for loop is through: the round is complete or another sweep starts
EndSweep ==
    /\ pc = "sweep"
    /\ idx = Len(players) + 1
    /\ IF BettingComplete(players, current_bet, round_had_action)
       THEN /\ pc' = "determine_winner"
            /\ UNCHANGED <<idx, all_called, round_had_action>>
       ELSE /\ pc' = "sweep"
            /\ idx' = 1
            /\ all_called' = TRUE
            /\ round_had_action' = FALSE
    /\ UNCHANGED <<players, deck, table, hand_count, last_raiser, players_acted,
                   call_amount, decision, console, exception>>

(***************************************************************************)
(* play_hand after the betting round                                       *)
(***************************************************************************)
\* determine_winner emptying the pot as it pays the winner
DetermineWinnerEmptiesPot ==
    /\ pc = "determine_winner"
    /\ IF Cardinality(NotFolded(players)) = 0
       THEN /\ pc' = "move_dealer"
            /\ UNCHANGED <<players, pot, exception>>
       ELSE IF Winner(players) = 0
       THEN /\ pc' = "crashed"
            /\ exception' = "ValueError"
            /\ UNCHANGED <<players, pot>>
       ELSE /\ pc' = "move_dealer"
            /\ players' = [players EXCEPT ![Winner(players)].chips = @ + pot]
            /\ pot' = 0
            /\ UNCHANGED exception
    /\ UNCHANGED <<deck, current_bet, dealer_position, hand_count, round_locals,
                   call_amount, decision, console>>

\* if len(active_players) > 0: determine_winner()
DetermineWinner ==
    /\ pc = "determine_winner"
    /\ IF Cardinality(NotFolded(players)) = 0
       THEN /\ pc' = "move_dealer"
            /\ UNCHANGED <<players, exception>>
       ELSE IF Winner(players) = 0
       THEN /\ pc' = "crashed"
            /\ exception' = "ValueError"
            /\ UNCHANGED players
       ELSE /\ pc' = "move_dealer"
            /\ players' = [players EXCEPT ![Winner(players)].chips = @ + pot]
            /\ UNCHANGED exception
    /\ UNCHANGED <<deck, table, hand_count, round_locals, call_amount, decision,
                   console>>

\* more than one player has chips
CanContinue(ps) == Cardinality({i \in 1..Len(ps) : ps[i].chips > 0}) > 1

\* the dealer button moving one seat on without wrapping at the last seat
MoveDealerNoWrap ==
    /\ pc = "move_dealer"
    /\ dealer_position' = dealer_position + 1
    /\ pc' = IF ~CanContinue(players) THEN "game_over"
             ELSE IF \E i \in 1..Len(players) :
                        players[i].chips > 0 /\ players[i].kind = "Human"
             THEN "continue_prompt"
             ELSE "play_hand"
    /\ UNCHANGED <<players, deck, pot, current_bet, hand_count, round_locals,
                   call_amount, decision, console, exception>>

\* play_hand: the dealer button moves; play_game: stop unless two players
\* have chips, and ask before the next hand if a human is among them
MoveDealer ==
    /\ pc = "move_dealer"
    /\ dealer_position' = (dealer_position + 1) % Len(players)
    /\ pc' = IF ~CanContinue(players) THEN "game_over"
             ELSE IF \E i \in 1..Len(players) :
                        players[i].chips > 0 /\ players[i].kind = "Human"
             THEN "continue_prompt"
             ELSE "play_hand"
    /\ UNCHANGED <<players, deck, pot, current_bet, hand_count, round_locals,
                   call_amount, decision, console, exception>>

\* "Continue to next hand? (y/n): ": anything but y ends the game, and so
\* does KeyboardInterrupt
ContinuePrompt ==
    /\ pc = "continue_prompt"
    /\ \/ \E line \in ContinueLines :
             /\ console' = Line(line)
             /\ pc' = IF Strip(Lower(line)) = <<"y">> THEN "play_hand" ELSE "game_over"
       \/ /\ console' = Interrupt
          /\ pc' = "game_over"
    /\ UNCHANGED <<players, deck, table, hand_count, round_locals, call_amount,
                   decision, exception>>

Next ==
    \/ SetupHand
    \/ DealCards
    \/ EnterBettingRound
    \/ PassPlayer
    \/ AskAI
    \/ AskHuman
    \/ HumanReadAction
    \/ HumanReadAmount
    \/ HumanInterrupt
    \/ EndOfConsole
    \/ ProcessDecision
    \/ EndSweep
    \/ DetermineWinner
    \/ MoveDealer
    \/ ContinuePrompt

Spec == Init /\ [][Next]_vars

(***************************************************************************)
(* One betting round on a table the tests prepare: setup_hand and          *)
(* deal_cards, then some players fold() or are marked all-in before        *)
(* betting_round and determine_winner run                                  *)
(* (test_betting_round_all_fold_except_one,                                *)
(* test_betting_round_all_players_all_in,                                  *)
(* test_determine_winner_single_player).                                   *)
(***************************************************************************)
Marks == {"none", "fold", "all_in"}

Marked(p, mark) ==
    IF mark = "fold" THEN fold(p)
    ELSE IF mark = "all_in" THEN [p EXCEPT !.is_all_in = TRUE]
    ELSE p

PreparedTable(human_players, ai_players, starting_chips, k, marks) ==
    LET dealt == deal_cards(SetupRoster(NewGame(human_players, ai_players,
                                                starting_chips)),
                            Shuffle(DeckReset, k), 2)
    IN  /\ players = [i \in 1..Len(dealt.players) |-> Marked(dealt.players[i], marks[i])]
        /\ deck = dealt.cards
        /\ pot = 0
        /\ current_bet = 0
        /\ dealer_position = 0
        /\ hand_count = 1
        /\ idx = 1
        /\ last_raiser = 0
        /\ players_acted = {}
        /\ all_called = TRUE
        /\ round_had_action = FALSE
        /\ call_amount = 0
        /\ decision = NoDecision
        /\ console = NoInput
        /\ exception = "none"

InitRound ==
    /\ \E human_players \in 0..MaxPlayers, ai_players \in 0..MaxPlayers, stack \in 2..MaxStack,
          k \in 0..MaxShuffle :
          /\ human_players + ai_players \in 2..MaxPlayers
          /\ \E marks \in [1..(human_players + ai_players) -> Marks] :
                PreparedTable(human_players, ai_players, 10 * stack, k, marks)
    /\ pc = "betting_round"

NextRound ==
    \/ EnterBettingRound
    \/ PassPlayer
    \/ AskAI
    \/ AskHuman
    \/ HumanReadAction
    \/ HumanReadAmount
    \/ HumanInterrupt
    \/ EndOfConsole
    \/ ProcessDecision
    \/ EndSweep
    \/ DetermineWinner

SpecRound == InitRound /\ [][NextRound]_vars

(***************************************************************************)
(* One decision: player 1 of a table in mid-round, with any stack, bet and *)
(* hand of DecideHands, is asked while player 2 stands at its own bet; the *)
(* table bet is the larger of the two bets, held by the last raiser.       *)
(***************************************************************************)
DecideStacks == {10 * k : k \in 0..MaxDecideStack}

DecideBets == {10 * k : k \in 0..(2 * MaxDecideStack)}

DecideHands ==
    {<<>>,
     <<Card("A", "Hearts")>>,
     <<Card("A", "Hearts"), Card("A", "Spades")>>,
     <<Card("A", "Hearts"), Card("K", "Spades")>>,
     <<Card("2", "Hearts"), Card("2", "Spades")>>,
     <<Card("2", "Hearts"), Card("3", "Clubs")>>}

InitDecide ==
    /\ \E kind \in {"Human", "AI"}, chips \in DecideStacks, bet \in {0, 10},
          hand \in DecideHands, aggression \in -1..11, other \in DecideBets :
          /\ kind = "Human" => aggression = 0
          /\ players =
                <<[NewPlayer(<<"You", 0>>, kind, chips, aggression)
                      EXCEPT !.hand = hand, !.current_bet = bet],
                  [NewPlayer(<<"Alice", 0>>, "AI", 10, 3)
                      EXCEPT !.current_bet = other]>>
          /\ current_bet = Max(bet, other)
          /\ pot = bet + other
          /\ last_raiser = IF Max(bet, other) = 0 THEN 0
                           ELSE IF bet > other THEN 1 ELSE 2
          /\ players_acted = IF Max(bet, other) = 0 THEN {} ELSE {1, 2}
    /\ deck = DeckReset
    /\ dealer_position = 0
    /\ hand_count = 1
    /\ idx = 1
    /\ all_called = TRUE
    /\ round_had_action = FALSE
    /\ call_amount = 0
    /\ decision = NoDecision
    /\ console = NoInput
    /\ exception = "none"
    /\ pc = "sweep"

NextDecide ==
    \/ PassPlayer
    \/ AskAI
    \/ AskHuman
    \/ HumanReadAction
    \/ HumanReadAmount
    \/ HumanInterrupt
    \/ EndOfConsole
    \/ ProcessDecision

SpecDecide == InitDecide /\ [][NextDecide]_vars

(***************************************************************************)
(* place_bet alone: one player with any stack, bet and all-in flag commits *)
(* any amount, as betting_round does for a call (actual_bet =              *)
(* player.place_bet(amount); self.pot += actual_bet).                      *)
(***************************************************************************)
InitPlaceBet ==
    /\ \E chips \in 0..MaxBetStack, amount \in (0 - MaxBetStack)..(MaxBetStack + 2),
          bet \in 0..1,
          all_in \in BOOLEAN :
          /\ players = <<[NewPlayer(<<"TestAI", 0>>, "AI", chips, 5)
                            EXCEPT !.current_bet = bet, !.is_all_in = all_in]>>
          /\ decision = Call(amount)
    /\ deck = DeckReset
    /\ pot = 0
    /\ current_bet = 0
    /\ dealer_position = 0
    /\ hand_count = 0
    /\ idx = 1
    /\ last_raiser = 0
    /\ players_acted = {}
    /\ all_called = TRUE
    /\ round_had_action = FALSE
    /\ call_amount = 0
    /\ console = NoInput
    /\ exception = "none"
    /\ pc = "place_bet"

PlaceBet ==
    /\ pc = "place_bet"
    /\ LET bet == place_bet(players[idx], decision.amount)
       IN  /\ players' = [players EXCEPT ![idx] = bet.player]
           /\ pot' = pot + bet.bet_amount
    /\ pc' = "placed"
    /\ UNCHANGED <<deck, current_bet, dealer_position, hand_count, round_locals,
                   call_amount, decision, console, exception>>

SpecPlaceBet == InitPlaceBet /\ [][PlaceBet]_vars

(***************************************************************************)
(* One hand among players of any stacks: the table is the one setup_hand   *)
(* and deal_cards leave when the players hold 10, 20, .. chips each.       *)
(* Under fairness the program keeps running while it can, and every call   *)
(* of make_decision returns (a human who is asked eventually types an      *)
(* input that the loop accepts, or the console ends).                      *)
(***************************************************************************)
WithStacks(ps, stacks) == [i \in 1..Len(ps) |-> [ps[i] EXCEPT !.chips = 10 * stacks[i]]]

InitStacks ==
    /\ \E human_players \in 0..MaxPlayers, ai_players \in 0..MaxPlayers, k \in 0..MaxShuffle :
          /\ human_players + ai_players \in 2..MaxPlayers
          /\ \E stacks \in [1..(human_players + ai_players) -> 1..MaxStack] :
                LET dealt == deal_cards(
                        SetupRoster(WithStacks(NewGame(human_players, ai_players, 0),
                                               stacks)),
                        Shuffle(DeckReset, k), 2)
                IN  /\ players = dealt.players
                    /\ deck = dealt.cards
    /\ pot = 0
    /\ current_bet = 0
    /\ dealer_position = 0
    /\ hand_count = 1
    /\ idx = 1
    /\ last_raiser = 0
    /\ players_acted = {}
    /\ all_called = TRUE
    /\ round_had_action = FALSE
    /\ call_amount = 0
    /\ decision = NoDecision
    /\ console = NoInput
    /\ exception = "none"
    /\ pc = "betting_round"

\* make_decision returns: the human does not stay at the prompts forever
HumanReturns == []<>(pc \notin {"input_action", "input_amount"})

SpecHand == InitStacks /\ [][NextRound]_vars

LiveSpec == SpecHand /\ WF_vars(NextRound) /\ HumanReturns

(***************************************************************************)
(* play_hand called once on a table of any stacks, as the tests call it:   *)
(* either the players are as __init__ made them (with chips set after      *)
(* construction, 0 included), or they are as an earlier hand left them:    *)
(* two cards each, bets and flags still standing, the pot not yet cleared. *)
(* The dealer button is at the first or at the last seat.                  *)
(***************************************************************************)
\* a player as an earlier hand left it: a bet of 10 for a player who went
\* all-in or folded after betting, none for an untouched one
LeftOver(p, mark) ==
    Marked([p EXCEPT !.current_bet = IF mark = "none" THEN 0 ELSE 10], mark)

InitPlayHand ==
    /\ \E human_players \in 0..MaxPlayers, ai_players \in 0..MaxPlayers :
          /\ human_players + ai_players \in 1..MaxPlayers
          /\ \E stacks \in [1..(human_players + ai_players) -> 0..MaxStack],
                marks \in [1..(human_players + ai_players) -> Marks],
                fresh \in BOOLEAN :
                LET made == WithStacks(NewGame(human_players, ai_players, 0), stacks)
                    dealt == deal_cards(made, DeckReset, 2)
                    left == [i \in 1..Len(made) |-> LeftOver(dealt.players[i], marks[i])]
                IN  /\ fresh => \A i \in 1..Len(made) : marks[i] = "none"
                    /\ players = IF fresh THEN made ELSE left
                    /\ deck = IF fresh THEN DeckReset ELSE dealt.cards
                    /\ pot = IF fresh THEN 0 ELSE SumBets(left)
                    /\ current_bet = IF fresh THEN 0
                                     ELSE MaxSeq([i \in 1..Len(left) |-> left[i].current_bet])
          /\ dealer_position \in {0, human_players + ai_players - 1}
    /\ hand_count = 0
    /\ idx = 1
    /\ last_raiser = 0
    /\ players_acted = {}
    /\ all_called = TRUE
    /\ round_had_action = FALSE
    /\ call_amount = 0
    /\ decision = NoDecision
    /\ console = NoInput
    /\ exception = "none"
    /\ pc = "play_hand"

\* the one call of play_hand
PlayHandOnce == hand_count = 0 /\ SetupHand

NextPlayHand ==
    \/ PlayHandOnce
    \/ DealCards
    \/ NextRound
    \/ MoveDealer

SpecPlayHand == InitPlayHand /\ [][NextPlayHand]_vars

(***************************************************************************)
(* A betting round under a scripted policy, as test_betting_round_with_    *)
(* raises runs it: AIPlayer.make_decision is patched by a mock that        *)
(* returns one decision at its first call and another at every later call, *)
(* whatever it is asked.  The game has two AI players (the test) or three  *)
(* (the scenario of the specification), with the default starting chips.   *)
(***************************************************************************)
\* PokerGame(..., starting_chips=1000)
DefaultChips == 1000

\* amounts the mock's decisions carry
ScriptAmounts == {0, 10, 50, 100}

ScriptDecisions ==
    {Fold} \cup {Call(a) : a \in ScriptAmounts} \cup {Raise(a) : a \in ScriptAmounts}

\* an AIPlayer whose make_decision is the mock: `first` at the first call of
\* the round, `rest` afterwards
Mocked(p, first, rest) ==
    [name |-> p.name, kind |-> "Mock", chips |-> p.chips, hand |-> p.hand,
     current_bet |-> p.current_bet, has_folded |-> p.has_folded,
     is_all_in |-> p.is_all_in, aggression |-> p.aggression,
     first |-> first, rest |-> rest]

InitScripted ==
    /\ \E ai_players \in {2, 3}, first \in ScriptDecisions, rest \in ScriptDecisions :
          players = [i \in 1..ai_players |->
                        Mocked(SetupRoster(NewGame(0, ai_players, DefaultChips))[i],
                               first, rest)]
    /\ \E k \in 0..MaxShuffle : deck = Shuffle(DeckReset, k)
    /\ pot = 0
    /\ current_bet = 0
    /\ dealer_position = 0
    /\ hand_count = 1
    /\ idx = 1
    /\ last_raiser = 0
    /\ players_acted = {}
    /\ all_called = TRUE
    /\ round_had_action = FALSE
    /\ call_amount = 0
    /\ decision = NoDecision
    /\ console = NoInput
    /\ exception = "none"
    /\ pc = "betting_round"

\* player.make_decision of a mocked player: decision_count is 1 exactly when
\* nobody has acted in the round yet
AskScripted ==
    /\ pc = "sweep"
    /\ idx <= Len(players)
    /\ Asked(idx)
    /\ players[idx].kind = "Mock"
    /\ decision' = IF players_acted = {} THEN players[idx].first ELSE players[idx].rest
    /\ pc' = "process"
    /\ UNCHANGED <<players, deck, table, hand_count, round_locals, call_amount,
                   console, exception>>

NextScripted ==
    \/ EnterBettingRound
    \/ PassPlayer
    \/ AskScripted
    \/ ProcessDecision
    \/ EndSweep

SpecScripted == InitScripted /\ [][NextScripted]_vars

(***************************************************************************)
(* The hand-strength heuristic alone: an automated player holding any hand *)
(* of up to MaxHandCards cards of two suits decides once, facing nothing   *)
(* or a bet of 20.                                                         *)
(***************************************************************************)
StrengthCards ==
    {Card(RANKS[r], s) : r \in 1..Len(RANKS), s \in {"Hearts", "Spades"}}

StrengthHands ==
    {hand \in UNION {[1..n -> StrengthCards] : n \in 0..MaxHandCards} :
        \A i, j \in 1..Len(hand) : i # j => hand[i] # hand[j]}

InitStrength ==
    /\ \E hand \in StrengthHands, other \in {0, 20} :
          /\ players =
                <<[NewPlayer(<<"AI1", 0>>, "AI", 50, 5) EXCEPT !.hand = hand],
                  [NewPlayer(<<"Alice", 0>>, "AI", 10, 3)
                      EXCEPT !.current_bet = other]>>
          /\ current_bet = other
          /\ pot = other
          /\ last_raiser = IF other = 0 THEN 0 ELSE 2
          /\ players_acted = IF other = 0 THEN {} ELSE {1, 2}
    /\ deck = DeckReset
    /\ dealer_position = 0
    /\ hand_count = 1
    /\ idx = 1
    /\ all_called = TRUE
    /\ round_had_action = FALSE
    /\ call_amount = 0
    /\ decision = NoDecision
    /\ console = NoInput
    /\ exception = "none"
    /\ pc = "sweep"

NextStrength ==
    \/ AskAI
    \/ ProcessDecision
    \/ PassPlayer

SpecStrength == InitStrength /\ [][NextStrength]_vars

(***************************************************************************)
(* A hand and the start of the next: after the hand of SpecHand the dealer *)
(* button moves, play_game asks whether to continue where a human is left, *)
(* and setup_hand runs for the second hand on the players as the first     *)
(* hand left them.                                                         *)
(***************************************************************************)
SetupNextHand == hand_count = 1 /\ SetupHand

NextNextHand ==
    \/ NextRound
    \/ MoveDealer
    \/ ContinuePrompt
    \/ SetupNextHand

SpecNextHand == InitStacks /\ [][NextNextHand]_vars

(***************************************************************************)
(* setup_hand alone, on a game of up to MaxSeats automated players as an   *)
(* earlier hand may have left them: any stacks (0 included), two cards     *)
(* each, bets and flags standing, the pot not cleared; or as __init__ made *)
(* them, with the chips set afterwards.  The cards are given to the        *)
(* players as the test gives them, the deck being as constructed.          *)
(***************************************************************************)
InitSetup ==
    /\ \E ai_players \in 1..MaxSeats :
          \E stacks \in [1..ai_players -> 0..MaxStack],
             marks \in [1..ai_players -> Marks],
             fresh \in BOOLEAN :
                LET made == WithStacks(NewGame(0, ai_players, 0), stacks)
                    left == [i \in 1..Len(made) |->
                                LeftOver([made[i] EXCEPT !.hand =
                                             <<DeckReset[2 * i - 1], DeckReset[2 * i]>>],
                                         marks[i])]
                IN  /\ fresh => \A i \in 1..Len(made) : marks[i] = "none"
                    /\ players = IF fresh THEN made ELSE left
                    /\ pot = IF fresh THEN 0 ELSE SumBets(left)
                    /\ current_bet = IF fresh THEN 0
                                     ELSE MaxSeq([i \in 1..Len(left) |-> left[i].current_bet])
    /\ deck = DeckReset
    /\ dealer_position = 0
    /\ hand_count = 0
    /\ idx = 1
    /\ last_raiser = 0
    /\ players_acted = {}
    /\ all_called = TRUE
    /\ round_had_action = FALSE
    /\ call_amount = 0
    /\ decision = NoDecision
    /\ console = NoInput
    /\ exception = "none"
    /\ pc = "play_hand"

SpecSetup == InitSetup /\ [][PlayHandOnce]_vars

(***************************************************************************)
(* A hand among three players under the scripted policy, each with a stack *)
(* of 10, 20, .. or the default one, so that raises push the short stacks  *)
(* all-in while the others bet on; then the winner is paid, the button     *)
(* moves and setup_hand runs for the next hand.                            *)
(***************************************************************************)
ScriptStacks == {10 * s : s \in 1..MaxStack} \cup {DefaultChips}

InitFrozen ==
    /\ \E first \in ScriptDecisions, rest \in ScriptDecisions,
          stacks \in [1..3 -> ScriptStacks] :
          LET made == [i \in 1..3 |->
                          [NewGame(0, 3, DefaultChips)[i] EXCEPT !.chips = stacks[i]]]
              dealt == deal_cards(SetupRoster(made), DeckReset, 2)
          IN  /\ players = [i \in 1..3 |-> Mocked(dealt.players[i], first, rest)]
              /\ deck = dealt.cards
    /\ pot = 0
    /\ current_bet = 0
    /\ dealer_position = 0
    /\ hand_count = 1
    /\ idx = 1
    /\ last_raiser = 0
    /\ players_acted = {}
    /\ all_called = TRUE
    /\ round_had_action = FALSE
    /\ call_amount = 0
    /\ decision = NoDecision
    /\ console = NoInput
    /\ exception = "none"
    /\ pc = "betting_round"

NextFrozen ==
    \/ NextScripted
    \/ DetermineWinner
    \/ MoveDealer
    \/ SetupNextHand

SpecFrozen == InitFrozen /\ [][NextFrozen]_vars

(***************************************************************************)
(* A later hand of a game of automated players: the players hold what the  *)
(* hands before left them (nothing, for some), the dealer button is at any *)
(* seat of the roster, where the modulo of play_hand put it, two players   *)
(* or more have chips (play_game goes on), and play_hand runs once more,   *)
(* up to the betting round.                                                *)
(***************************************************************************)
InitLaterHand ==
    /\ \E ai_players \in 2..MaxSeats :
          /\ \E stacks \in [1..ai_players -> 0..MaxStack] :
                /\ players = WithStacks(NewGame(0, ai_players, 0), stacks)
                /\ CanContinue(players)
          /\ dealer_position \in 0..(ai_players - 1)
    /\ deck = DeckReset
    /\ pot = 0
    /\ current_bet = 0
    /\ hand_count = 0
    /\ idx = 1
    /\ last_raiser = 0
    /\ players_acted = {}
    /\ all_called = TRUE
    /\ round_had_action = FALSE
    /\ call_amount = 0
    /\ decision = NoDecision
    /\ console = NoInput
    /\ exception = "none"
    /\ pc = "play_hand"

NextLaterHand ==
    \/ PlayHandOnce
    \/ DealCards

SpecLaterHand == InitLaterHand /\ [][NextLaterHand]_vars

(***************************************************************************)
(* Properties.                                                             *)
(***************************************************************************)
RoundPcs == {"sweep", "input_action", "input_amount", "process"}

InputPcs == {"input_action", "input_amount"}

Seats == 1..Len(players)

Standing == {i \in Seats : ~players[i].has_folded}

TopCard(i) == MaxSeq(HandValues(players[i].hand))

\* C1: chip conservation during betting.  From the fresh hand on (pot 0, no
\* bets) the pot equals the sum of the players' current bets, and no step of
\* the betting round changes the sum of all chips plus the pot.
Conservation ==
    /\ [](pc \in RoundPcs \cup {"betting_round", "determine_winner"}
            => pot = SumBets(players))
    /\ [][(pc \in RoundPcs \cup {"betting_round"})
            => SumChips(players') + pot' = SumChips(players) + pot]_vars

\* C1 witness: a round has ended after a raise drove one player all-in and
\* another one to fold
ConservationWitness ==
    /\ pc = "determine_winner"
    /\ pot > 0
    /\ last_raiser # 0
    /\ \E i, j \in Seats : players[i].is_all_in /\ players[j].has_folded

\* C2: matching invariant at round end.  Whenever the betting round is over
\* with two or more players standing, every player is folded, all-in or has
\* matched the table bet.
MatchingAtRoundEnd ==
    (pc = "determine_winner" /\ Cardinality(Standing) >= 2)
        => \A i \in Seats :
              \/ players[i].has_folded
              \/ players[i].is_all_in
              \/ players[i].current_bet = current_bet

\* C3: round termination.  Every betting round that starts comes to its end
\* (or the program ends with an exception), whatever the players decide.
RoundTerminates ==
    (pc = "betting_round") ~> (pc \in {"determine_winner", "crashed"})

\* C3 witness: a round has ended after raises exhausted a stack, with two
\* players still standing
RoundTerminatesWitness ==
    /\ pc = "determine_winner"
    /\ last_raiser # 0
    /\ Cardinality(Standing) >= 2
    /\ \E i \in Seats : players[i].is_all_in /\ players[i].current_bet > minimum_bet

\* C4: fold-out shortcut.  While the round goes on two players stand; the
\* fold that leaves one player ends the round at once with pot, chips and
\* bets as they were; a round entered with at most one player able to act
\* returns with nothing changed; and a sole standing player receives the pot.
FoldOutShortcut ==
    /\ [](pc \in RoundPcs => Cardinality(Standing) >= 2)
    /\ [][(pc = "process" /\ decision.decision = "fold"
              /\ Cardinality({i \in Seats : i # idx /\ ~players[i].has_folded}) <= 1)
            => /\ pc' = "determine_winner"
               /\ pot' = pot
               /\ players' = [players EXCEPT ![idx].has_folded = TRUE]]_vars
    /\ [][(pc = "betting_round"
              /\ Cardinality({i \in Seats : ~players[i].has_folded
                                            /\ ~players[i].is_all_in}) <= 1)
            => /\ pc' = "determine_winner"
               /\ pot' = pot
               /\ players' = players]_vars
    /\ [][(pc = "determine_winner" /\ Cardinality(Standing) = 1)
            => \A w \in Standing :
                  players' = [players EXCEPT ![w].chips = @ + pot]]_vars

\* C4 witness: the last decision was the fold that left one player, who has
\* been paid a pot that holds chips
FoldOutWitness ==
    /\ pc = "move_dealer"
    /\ decision = Fold
    /\ Cardinality(Standing) = 1
    /\ pot > 0

\* C5: place_bet(amount) commits min(amount, chips): the chips fall and the
\* current bet rises by exactly that; the player is all-in with no chips when
\* amount >= chips, and keeps the flag as it was when amount < chips.
PlaceBetContract ==
    [][(pc = "place_bet")
        => LET p == players[1]
               q == players'[1]
               amount == decision.amount
               returned == pot' - pot
           IN  /\ returned = IF amount <= p.chips THEN amount ELSE p.chips
               /\ q.chips = p.chips - returned
               /\ q.current_bet = p.current_bet + returned
               /\ amount >= p.chips => (q.is_all_in /\ q.chips = 0)
               /\ amount < p.chips => q.is_all_in = p.is_all_in
               /\ q.has_folded = p.has_folded
               /\ q.hand = p.hand]_vars

\* C5 witness: a bet for more than the stack has been cut down to the stack
PlaceBetWitness ==
    /\ pc = "placed"
    /\ players[1].is_all_in
    /\ players[1].chips = 0
    /\ pot > 0
    /\ pot < decision.amount

\* C6: showdown winner.  With two or more players standing the pot goes to
\* the standing player with the highest top card, and among equals to the
\* one seated first.
ShowdownWinner ==
    [][(pc = "determine_winner" /\ Cardinality(Standing) >= 2)
        => \E w \in Standing :
              /\ \A j \in Standing : TopCard(j) <= TopCard(w)
              /\ \A j \in Standing : j < w => TopCard(j) < TopCard(w)
              /\ players'[w].chips = players[w].chips + pot]_vars

\* C6 witness: a pot with chips has been awarded at a showdown where two
\* standing players shared the highest top card
ShowdownWitness ==
    /\ pc = "move_dealer"
    /\ pot > 0
    /\ \E i, j \in Standing :
          /\ i < j
          /\ TopCard(i) = TopCard(j)
          /\ \A k \in Standing : TopCard(k) <= TopCard(i)

\* C7: the pot award is all-or-nothing.  determine_winner adds the whole pot
\* to the chips of one standing player and changes nothing else of any
\* player.
PotAwardAllOrNothing ==
    [][(pc = "determine_winner" /\ Cardinality(Standing) >= 1)
        => \E w \in Standing : players' = [players EXCEPT ![w].chips = @ + pot]]_vars

\* C7 witness: the pot has been awarded among standing players who had
\* put different amounts into it, the one who put less being all-in
PotAwardWitness ==
    /\ pc = "move_dealer"
    /\ pot > 0
    /\ \E i, j \in Standing :
          players[i].current_bet < players[j].current_bet /\ players[i].is_all_in

\* C8 as stated: the amount of a Call or Raise decision never exceeds the
\* chips of the player who decides.
DecisionWithinChips ==
    (pc = "process" /\ decision.decision \in {"call", "raise"})
        => decision.amount <= players[idx].chips

\* C8 amended: a Raise never carries more than the player's chips; a Call
\* carries the amount to call, whatever the stack; and processing either
\* commits no more than the player's chips.
RaiseWithinChips ==
    /\ [](pc = "process" /\ decision.decision = "raise"
            => decision.amount <= players[idx].chips)
    /\ [](pc = "process" /\ decision.decision = "call"
            => decision.amount =
                  IF current_bet > players[idx].current_bet
                  THEN current_bet - players[idx].current_bet ELSE 0)
    /\ [][(pc = "process")
            => /\ pot' - pot <= players[idx].chips
               /\ pot' - pot = players[idx].chips - players'[idx].chips
               /\ players'[idx].chips >= 0]_vars

\* C8 witness: a player with 50 chips who faces 100 to call has decided to call
ShortStackCalls ==
    /\ pc = "process"
    /\ idx = 1
    /\ players[1].chips = 50
    /\ current_bet - players[1].current_bet = 100
    /\ decision.decision = "call"

\* C9 as stated: a KeyboardInterrupt while a human decides returns Fold.
AbortIsFold ==
    [][(pc \in InputPcs /\ console' = Interrupt)
        => (pc' = "process" /\ decision' = Fold)]_vars

\* C9 amended: a KeyboardInterrupt while a human decides is taken as invalid
\* input: no decision is returned, nothing of the table changes and the
\* action is prompted for again.
AbortReprompts ==
    [][(pc \in InputPcs /\ console' = Interrupt)
        => /\ pc' = "input_action"
           /\ exception' = "none"
           /\ UNCHANGED <<players, table, round_locals, decision, call_amount>>]_vars

\* C9 witness: an interrupt has been read and the action prompt is up again
AbortWitness ==
    /\ pc = "input_action"
    /\ console = Interrupt
    /\ pot > 0

\* an unknown action letter
MalformedAction(line) == Strip(Lower(line)) \notin {<<"f">>, <<"c">>, <<"r">>}

\* C10: malformed human input (an unknown action letter, a raise amount that
\* is no integer) raises no error and changes nothing: the action prompt
\* comes again; and the decision returned is the one of the line that is
\* accepted.
MalformedRecovered ==
    /\ [][(\/ pc = "input_action" /\ console'.event = "line"
                /\ MalformedAction(console'.line)
           \/ pc = "input_amount" /\ console'.event = "line"
                /\ ~ParseInt(console'.line).ok)
            => /\ pc' = "input_action"
               /\ exception' = "none"
               /\ UNCHANGED <<players, table, round_locals, decision, call_amount>>]_vars
    /\ [][(pc \in InputPcs /\ pc' = "process")
            => decision' =
                  IF pc = "input_amount"
                  THEN Raise(call_amount + ParseInt(console'.line).value)
                  ELSE IF Strip(Lower(console'.line)) = <<"f">> THEN Fold
                  ELSE Call(call_amount)]_vars

\* C10 witness: a raise amount that is no integer has been read and the
\* action prompt is up again
MalformedWitness ==
    /\ pc = "input_action"
    /\ console = Line(<<"a", "l", "l">>)
    /\ exception = "none"

\* C11: a negative bet fails fast.  place_bet called with amount < 0 is
\* rejected as an error and leaves the player's chips and current bet (and
\* so the pot) as they were.
NegativeBetRejected ==
    [][(pc = "place_bet" /\ decision.amount < 0)
        => /\ exception' # "none"
           /\ players'[1].chips = players[1].chips
           /\ players'[1].current_bet = players[1].current_bet
           /\ pot' = pot]_vars

\* the players of a roster who have chips
Funded(ps) == {i \in 1..Len(ps) : ps[i].chips > 0}

\* C12: degenerate round.  setup_hand raises nothing and returns False
\* exactly when fewer than two players have chips; play_hand then returns
\* False at once: no card is dealt, no chip moves, the dealer button stays,
\* and nothing more happens in that call.
DegenerateRound ==
    /\ [][(pc = "play_hand")
            => /\ exception' = "none"
               /\ pc' \in {"game_over", "deal_cards"}
               /\ (pc' = "game_over") <=> (Cardinality(Funded(players)) < 2)
               /\ pc' = "game_over"
                     => /\ \A i \in 1..Len(players') : players'[i].hand = <<>>
                        /\ SumChips(players') = SumChips(players)
                        /\ pot' = 0
                        /\ dealer_position' = dealer_position]_vars
    /\ [][pc # "game_over"]_vars

\* C12 witness: play_hand has returned False on a table of two players of
\* whom one had chips (the button still at the second seat)
DegenerateWitness ==
    /\ pc = "game_over"
    /\ hand_count = 1
    /\ Len(players) = 1
    /\ dealer_position = 1
    /\ pot = 0

\* the scenario: three players of 1000 chips, the first decision of the round
\* is a raise of 50 and every later one a call of 50
RaiseAndCall ==
    /\ Len(players) = 3
    /\ \A i \in Seats :
          /\ players[i].kind = "Mock"
          /\ players[i].first = Raise(50)
          /\ players[i].rest = Call(50)

\* C13: raise and call, end to end.  In the scenario the round ends with a
\* pot of 150, a table bet of 50, every player at a bet of 50 with 950 chips
\* and nobody folded; no player is asked twice, the raiser included, and no
\* chip beyond the 150 ever moves.
RaiseAndCallScenario ==
    /\ [](RaiseAndCall
            => /\ pot <= 150
               /\ pc = "determine_winner"
                     => /\ pot = 150
                        /\ current_bet = 50
                        /\ last_raiser = 1
                        /\ \A i \in Seats :
                              /\ players[i].current_bet = 50
                              /\ players[i].chips = 950
                              /\ ~players[i].has_folded)
    /\ [][(RaiseAndCall /\ pc = "sweep" /\ pc' = "process")
            => idx \notin players_acted]_vars

\* C13 witness: the scenario has been played to the end of the round
RaiseAndCallWitness ==
    /\ RaiseAndCall
    /\ pc = "determine_winner"
    /\ players_acted = {1, 2, 3}
    /\ pot = 150

\* the increment typed at the amount prompt is an integer within
\* minimum_bet .. chips - call_amount
ValidIncrement(line) ==
    /\ ParseInt(line).ok
    /\ minimum_bet <= ParseInt(line).value
    /\ ParseInt(line).value <= players[idx].chips - call_amount

\* C14: human raise validation.  A human's make_decision returns a Raise only
\* from the amount prompt, with call_amount < chips and an increment within
\* minimum_bet .. chips - call_amount, and the Raise carries call_amount +
\* increment; 'r' from a player who cannot call, and any other increment,
\* return nothing and bring the action prompt back.
HumanRaiseValidated ==
    /\ [][(pc \in InputPcs /\ pc' = "process" /\ decision'.decision = "raise")
            => /\ pc = "input_amount"
               /\ call_amount = CallAmount(players[idx], current_bet)
               /\ call_amount < players[idx].chips
               /\ console'.event = "line"
               /\ ValidIncrement(console'.line)
               /\ decision' = Raise(call_amount + ParseInt(console'.line).value)]_vars
    /\ [][(pc = "input_amount" /\ console'.event = "line"
                /\ ~ValidIncrement(console'.line))
            => (pc' = "input_action" /\ UNCHANGED <<players, table, decision>>)]_vars
    /\ [][(pc = "input_action" /\ console'.event = "line"
                /\ ReadAction(console'.line) = <<"r">>)
            => IF call_amount >= players[idx].chips
               THEN pc' = "input_action" /\ UNCHANGED <<players, table, decision>>
               ELSE pc' = "input_amount"]_vars

\* C14 witness: a human who had to call first has raised by 20 on top
HumanRaiseWitness ==
    /\ pc = "process"
    /\ players[idx].kind = "Human"
    /\ call_amount > 0
    /\ console = Line(<<"2", "0">>)
    /\ decision = Raise(call_amount + 20)

\* minimum bets a game may be set to
MinimumBets == {1, 5, 10, 20, 100}

\* C15: nothing to call, no fold.  When the table bet does not exceed the
\* player's own bet the automated policy returns Call(0) or a Raise, whatever
\* the hand, the chips, the aggression and the minimum bet.
NoFoldWhenFree ==
    /\ [](pc = "process" /\ players[idx].kind = "AI"
              /\ current_bet <= players[idx].current_bet
            => decision = Call(0) \/ decision.decision = "raise")
    /\ [](pc = "sweep" /\ idx <= Len(players) /\ players[idx].kind = "AI"
              /\ current_bet <= players[idx].current_bet
            => \A mb \in MinimumBets :
                  ai_make_decision(players[idx], current_bet, mb).decision # "fold")

\* C15 witness: an automated player holding 2 and 3, its bet of 10 being the
\* table bet, has checked
NoFoldWitness ==
    /\ pc = "process"
    /\ players[idx].kind = "AI"
    /\ players[idx].hand = <<Card("2", "Hearts"), Card("3", "Clubs")>>
    /\ players[idx].current_bet = 10
    /\ current_bet = 10
    /\ decision = Call(0)

(***************************************************************************)
(* Hand strength, in 130ths: 0.5 is 65, 0.7 is 91, 0.3 is 39, 1 is 130.    *)
(***************************************************************************)
IsTop(hand, t) ==
    \A k \in 1..Len(hand) : get_value(hand[k]) <= get_value(hand[t])

Paired(hand, t) ==
    \E j \in 1..Len(hand) : j # t /\ get_value(hand[j]) = get_value(hand[t])

\* the two highest cards of the hand pair
PairOnTop(hand) ==
    /\ Len(hand) >= 2
    /\ \E t \in 1..Len(hand) : IsTop(hand, t) /\ Paired(hand, t)

\* strength is what the formula gives for hand
StrengthByFormula(hand, strength) ==
    /\ strength \in 0..130
    /\ IF Len(hand) < 2 THEN strength = 65
       ELSE \E t \in 1..Len(hand) :
               /\ IsTop(hand, t)
               /\ IF Paired(hand, t)
                  THEN strength = 91 + 3 * get_value(hand[t])
                  ELSE strength = 39 + 4 * get_value(hand[t])

\* C16: every held hand has the strength of the formula (0.5 with fewer than
\* two cards, 0.7 + (top/13)*0.3 for a top pair, 0.3 + (top/13)*0.4
\* otherwise), within [0,1], and a top pair is stronger than 0.7.
HandStrengthHeuristic ==
    \A i \in Seats :
        /\ StrengthByFormula(players[i].hand, evaluate_hand_strength(players[i].hand))
        /\ PairOnTop(players[i].hand)
           => evaluate_hand_strength(players[i].hand) > 91

\* C16: every held hand has the strength of the formula, within [0,1]; a top
\* pair has strength at least 0.7, and exactly 0.7 only for a pair of 2s.
HandStrengthFormula ==
    \A i \in Seats :
        /\ StrengthByFormula(players[i].hand, evaluate_hand_strength(players[i].hand))
        /\ PairOnTop(players[i].hand)
           => /\ evaluate_hand_strength(players[i].hand) >= 91
              /\ evaluate_hand_strength(players[i].hand) = 91
                 <=> \A k \in 1..Len(players[i].hand) :
                        get_value(players[i].hand[k]) = 0

\* C16 witness: the pair of 2s, of strength exactly 0.7, has been played
PairOfTwosDecided ==
    /\ pc = "process"
    /\ idx = 1
    /\ players[1].hand = <<Card("2", "Hearts"), Card("2", "Spades")>>
    /\ evaluate_hand_strength(players[1].hand) = 91
    /\ decision.decision = "call"

\* C17: reset_for_new_hand, as setup_hand applies it to every player: each
\* player who stays in the roster comes out with an empty hand, no bet and
\* neither flag, whatever these were, and with the chips and name it had.
ResetForNewHand ==
    [][(pc = "play_hand" /\ pc' # "play_hand")
        => \A i \in Seats :
              players[i].chips > 0
              => \E j \in 1..Len(players') :
                    /\ players'[j].name = players[i].name
                    /\ players'[j].chips = players[i].chips
                    /\ players'[j].hand = <<>>
                    /\ players'[j].current_bet = 0
                    /\ ~players'[j].has_folded
                    /\ ~players'[j].is_all_in]_vars

\* C17 witness: the second hand starts after a hand in which the player at
\* idx folded to the raise of last_raiser; both are reset
ResetWitness ==
    /\ hand_count = 2
    /\ pc = "deal_cards"
    /\ Len(players) = 2
    /\ decision = Fold
    /\ last_raiser \in Seats
    /\ last_raiser # idx
    /\ ~players[idx].has_folded
    /\ players[last_raiser].current_bet = 0
    /\ players[idx].hand = <<>>

\* C18: dealer rotation.  The dealer position stays as it is all through a
\* hand and, when the hand is over (by fold-out or by showdown), becomes the
\* previous position plus one modulo the number of players in the roster.
DealerRotation ==
    [][IF pc = "move_dealer"
       THEN /\ Len(players) >= 2
            /\ dealer_position' = (dealer_position + 1) % Len(players)
       ELSE dealer_position' = dealer_position]_vars

\* C18 witness: a hand that ended by fold-out has moved the button from the
\* last seat round to the first
DealerWrapped ==
    /\ hand_count = 1
    /\ pc \in {"play_hand", "continue_prompt", "game_over"}
    /\ Len(players) >= 2
    /\ decision = Fold
    /\ Cardinality(Standing) = 1
    /\ dealer_position = 0

\* the seat, before setup_hand, of the j-th player that has chips
KeptSeat(j) ==
    CHOOSE i \in Seats :
        /\ players[i].chips # 0
        /\ Cardinality({k \in 1..i : players[k].chips # 0}) = j

\* C19: roster at hand start.  setup_hand drops exactly the players with no
\* chips and keeps the others, with their chips, in seating order; when it
\* returns True every player of the roster has chips, no cards, no bet and
\* neither flag, and the pot and the table bet are 0.
RosterAtHandStart ==
    [][(pc = "play_hand" /\ pc' # "play_hand")
        => /\ Len(players') = Cardinality({i \in Seats : players[i].chips # 0})
           /\ \A j \in 1..Len(players') :
                 /\ players'[j].name = players[KeptSeat(j)].name
                 /\ players'[j].chips = players[KeptSeat(j)].chips
           /\ pc' = "deal_cards"
              => /\ pot' = 0
                 /\ current_bet' = 0
                 /\ \A j \in 1..Len(players') :
                       /\ players'[j].chips > 0
                       /\ players'[j].hand = <<>>
                       /\ players'[j].current_bet = 0
                       /\ ~players'[j].has_folded
                       /\ ~players'[j].is_all_in]_vars

\* C19 witness: setup_hand returned True on the roster of Alice and Charlie:
\* Bob, seated between them, is gone
RosterWitness ==
    /\ pc = "deal_cards"
    /\ hand_count = 1
    /\ Len(players) = 2
    /\ players[1].name = AIName(0)
    /\ players[2].name = AIName(2)
    /\ players[1].chips < players[2].chips
    /\ pot = 0

Frozen(i) == players[i].has_folded \/ players[i].is_all_in

\* C20: folded and all-in players are frozen.  The player whose decision is
\* asked or carried out is neither folded nor all-in; no step of the betting
\* round changes the chips, the bet or the hand of a folded or all-in player;
\* and a folded flag stays set until setup_hand resets it for the next hand.
FoldedAndAllInFrozen ==
    /\ [](pc \in RoundPcs \ {"sweep"} => ~Frozen(idx))
    /\ [][\A i \in Seats :
             /\ (pc \in RoundPcs \cup {"betting_round"} /\ Frozen(i))
                => /\ players'[i].chips = players[i].chips
                   /\ players'[i].current_bet = players[i].current_bet
                   /\ players'[i].hand = players[i].hand
             /\ (pc # "play_hand" /\ players[i].has_folded)
                => players'[i].has_folded]_vars

\* C20 witness: a player decides to raise while another stays all-in below
\* the table bet
FrozenWitness ==
    /\ pc = "process"
    /\ decision.decision = "raise"
    /\ \E i \in Seats \ {idx} :
          /\ players[i].is_all_in
          /\ players[i].chips = 0
          /\ players[i].current_bet < current_bet

\* C21: every raise of the human or automated policy that betting_round
\* processes lifts the table bet by at least minimum_bet, and no step of the
\* round lowers the table bet.
RaiseLiftsTableBet ==
    [][/\ (pc = "process" /\ decision.decision = "raise")
          => current_bet' >= current_bet + minimum_bet
       /\ pc \in RoundPcs \cup {"betting_round"}
          => current_bet' >= current_bet]_vars

\* C21 witness: a raise has been raised again
ReRaised ==
    /\ pc \in {"sweep", "determine_winner"}
    /\ decision.decision = "raise"
    /\ last_raiser \in Seats
    /\ current_bet >= 2 * minimum_bet
    /\ players[last_raiser].current_bet = current_bet

\* C22: processing Raise(amount) of player p.  place_bet(amount) is applied
\* to p (the committed amount is the amount, or the stack when the amount
\* reaches it), the committed amount goes to the pot, the table bet becomes
\* p's bet, p is the last raiser and the acted set is exactly {p}; nobody
\* else is touched.
RaiseProcessed ==
    [][(pc = "process" /\ decision.decision = "raise")
        => LET p == players[idx]
               q == players'[idx]
               committed == IF decision.amount >= p.chips THEN p.chips
                            ELSE decision.amount
           IN  /\ q.chips = p.chips - committed
               /\ q.current_bet = p.current_bet + committed
               /\ q.is_all_in = (p.is_all_in \/ decision.amount >= p.chips)
               /\ q.has_folded = p.has_folded
               /\ q.hand = p.hand
               /\ pot' = pot + committed
               /\ current_bet' = q.current_bet
               /\ last_raiser' = idx
               /\ players_acted' = {idx}
               /\ \A j \in Seats \ {idx} : players'[j] = players[j]]_vars

\* C22 witness: a raise has been processed after another player had bet, and
\* only the raiser is marked as having acted
RaiseProcessedWitness ==
    /\ pc = "sweep"
    /\ decision.decision = "raise"
    /\ last_raiser = idx - 1
    /\ players_acted = {last_raiser}
    /\ current_bet = players[last_raiser].current_bet
    /\ pot > players[last_raiser].current_bet
    /\ \E j \in Seats \ {last_raiser} : players[j].current_bet > 0

\* some player other than i is neither folded, nor all-in, nor at the table bet
SomeoneBehind(i) ==
    \E j \in Seats \ {i} :
        /\ ~players[j].has_folded
        /\ ~players[j].is_all_in
        /\ players[j].current_bet # current_bet

\* C23: last-raiser rule.  When the for loop comes to the last raiser, a
\* decision is requested only if some other player is neither folded, nor
\* all-in, nor matched; if every other player is, the loop passes on to the
\* next seat and nothing else changes.
LastRaiserRule ==
    [][(pc = "sweep" /\ idx \in Seats /\ idx = last_raiser)
        => /\ pc' \in {"process", "input_action"} => SomeoneBehind(idx)
           /\ ~SomeoneBehind(idx)
              => /\ pc' = "sweep"
                 /\ idx' = idx + 1
                 /\ UNCHANGED <<players, table, decision, last_raiser,
                                players_acted>>]_vars

\* C23 witness: the loop has passed the last raiser after everybody else
\* acted and matched the raise
RaiserPassed ==
    /\ pc = "sweep"
    /\ last_raiser \in Seats
    /\ idx = last_raiser + 1
    /\ players_acted = Seats
    /\ decision.decision = "call"
    /\ ~Frozen(last_raiser)
    /\ ~SomeoneBehind(last_raiser)

\* a fresh hand in which every decision so far was a check
Opening ==
    /\ current_bet = 0
    /\ pot = 0
    /\ last_raiser = 0
    /\ \A i \in Seats :
          /\ ~players[i].has_folded
          /\ ~players[i].is_all_in
          /\ players[i].current_bet = 0

\* C24: opening check-around.  On a fresh hand, as long as everybody checks,
\* the players are asked one after the other in seating order (those of the
\* seats before idx have acted, nobody else); a check changes neither pot,
\* table bet nor any player; and after the last seat the round is complete,
\* nobody being asked a second time.
CheckAround ==
    /\ []((pc \in RoundPcs /\ Opening) => players_acted = 1..(idx - 1))
    /\ [][/\ (pc = "sweep" /\ Opening /\ idx \in Seats)
             => /\ pc' \in {"process", "input_action"}
                /\ idx' = idx
          /\ (pc = "process" /\ Opening /\ decision = Call(0))
             => /\ pc' = "sweep"
                /\ idx' = idx + 1
                /\ UNCHANGED <<players, pot, current_bet>>
          /\ (pc = "sweep" /\ Opening /\ idx = Len(players) + 1)
             => /\ pc' = "determine_winner"
                /\ UNCHANGED <<players, pot, current_bet>>]_vars

\* C24 witness: everybody has checked and the round is complete
CheckedAround ==
    /\ pc = "determine_winner"
    /\ Opening
    /\ Len(players) >= 2
    /\ players_acted = Seats
    /\ idx = Len(players) + 1
    /\ decision = Call(0)

\* C25: fold and check leave the ledger untouched.  Processing a Fold or a
\* Call of amount 0 changes neither the pot, the table bet, the last raiser
\* nor any player's chips or bet; a check changes no player at all and a
\* fold only sets the folding player's folded flag.
FoldAndCheckLedger ==
    [][(pc = "process" /\ (decision = Fold \/ decision = Call(0)))
        => /\ UNCHANGED <<pot, current_bet, last_raiser>>
           /\ \A j \in Seats \ {idx} : players'[j] = players[j]
           /\ players'[idx] =
                 IF decision = Fold
                 THEN [players[idx] EXCEPT !.has_folded = TRUE]
                 ELSE players[idx]]_vars

\* C25 witness: a player who had bet has folded to a raise; the bet stays in
\* the pot and on the player's account
FoldedWithBet ==
    /\ pc \in {"sweep", "determine_winner"}
    /\ decision = Fold
    /\ \E i \in Seats :
          /\ players[i].has_folded
          /\ players[i].current_bet > 0
          /\ players[i].current_bet < current_bet
          /\ players[i].hand # <<>>
          /\ pot > current_bet

\* C26: the pot is never negative; from setup_hand to the end of the hand no
\* step lowers it (betting leaves or raises it, determine_winner leaves it),
\* and it only ever falls in setup_hand, which sets it to 0.
PotMonotone ==
    /\ [](pot >= 0)
    /\ [][/\ pc # "play_hand" => pot' >= pot
          /\ pc = "determine_winner" => pot' = pot
          /\ pot' < pot => (pc = "play_hand" /\ pot' = 0)]_vars

\* C26 witness: the hand is over, the winner is paid and the button moved,
\* and the pot still stands until the next setup_hand
PotStandsAfterHand ==
    /\ pc = "play_hand"
    /\ hand_count = 1
    /\ pot > 0
    /\ pot = SumBets(players)

\* C27: both policies compute the amount to call as max(0, table bet - own
\* bet).  It is the call_amount the human is shown, the amount of every Call
\* that reaches betting_round, and the amount of the Call the automated
\* policy returns for any table bet, below the player's own bet included.
CallCarriesCallAmount ==
    /\ [](pc \in InputPcs
            => call_amount = Max(0, current_bet - players[idx].current_bet))
    /\ [](pc = "process" /\ decision.decision = "call"
            => decision.amount = Max(0, current_bet - players[idx].current_bet))
    /\ [](pc = "sweep" /\ idx <= Len(players) /\ players[idx].kind = "AI"
            => \A table_bet \in DecideBets :
                  LET d == ai_make_decision(players[idx], table_bet, minimum_bet)
                  IN  d.decision = "call"
                      => d.amount = Max(0, table_bet - players[idx].current_bet))

\* C27 witness: a human with a bet of 10 calls a table bet of 50 with 40
HumanCallsForty ==
    /\ pc = "process"
    /\ players[idx].kind = "Human"
    /\ players[idx].current_bet = 10
    /\ current_bet = 50
    /\ console.event = "line"
    /\ decision = Call(40)

\* C28: automated raise sizing.  Whenever the automated policy returns a
\* Raise, the player had chips > call_amount + minimum_bet and the increment
\* is minimum_bet * (1 + aggression*strength*3) rounded to the nearest
\* integer and clamped to minimum_bet .. chips - call_amount; so the increment
\* lies in that range and the total does not exceed the chips.  (Aggression
\* in tenths and strength in 130ths: the product is (1300 + 3*A*s)/1300.)
RaiseSizing ==
    (pc = "process" /\ players[idx].kind = "AI" /\ decision.decision = "raise")
    => LET p == players[idx]
           call == Max(0, current_bet - p.current_bet)
           increment == decision.amount - call
           numerator == minimum_bet * (1300 + 3 * p.aggression
                                              * evaluate_hand_strength(p.hand))
           rounded == (2 * numerator + 1300) \div 2600
       IN  /\ p.chips > call + minimum_bet
           /\ increment = Max(minimum_bet, Min(rounded, p.chips - call))
           /\ minimum_bet <= increment
           /\ increment <= p.chips - call
           /\ decision.amount <= p.chips

SomebodyStands ==
    /\ [](pc \in RoundPcs \cup {"betting_round", "determine_winner", "move_dealer"}
            => Cardinality(Standing) >= 1)
    /\ [][pc = "determine_winner"
          => /\ pc' = "move_dealer"
             /\ \E w \in Standing :
                   /\ players'[w] = [players[w] EXCEPT !.chips = @ + pot]
                   /\ \A j \in Seats \ {w} : players'[j] = players[j]
             /\ SumChips(players') = SumChips(players) + SumBets(players)]_vars

\* C30 witness: two of three players have folded to a raise and the raiser,
\* the only one standing, has been paid the pot
LastStandingPaid ==
    /\ pc = "move_dealer"
    /\ Len(players) = 3
    /\ Cardinality(Standing) = 1
    /\ decision = Fold
    /\ pot > 0
    /\ \E w \in Standing : w = last_raiser /\ players[w].chips >= pot

\* the hand is under way: the pot holds chips that belong to the players
InHand == pc \in RoundPcs \cup {"deal_cards", "betting_round", "determine_winner"}

\* the chips of the table: those of the players and, during a hand, the pot
TotalChips == SumChips(players) + (IF InHand THEN pot ELSE 0)

\* C31: total chips are conserved.  No step of a hand that is played through
\* changes the chips of the table: betting moves chips into the pot, the
\* award moves the whole pot to a player, and setup_hand drops only players
\* who hold no chips; so the players' chips after the award are those
\* before the hand, hand after hand.
ChipsConserved ==
    [][pc' # "crashed"
       => /\ TotalChips' = TotalChips
          /\ pc = "play_hand"
             => /\ SumChips(players') = SumChips(players)
                /\ Len(players') = Cardinality({i \in Seats : players[i].chips # 0})]_vars

\* C31 witness: after a hand with a raise one of the three players is broke
\* and the next hand is set up without that player
BrokePlayerDropped ==
    /\ hand_count = 2
    /\ pc = "deal_cards"
    /\ Len(players) = 2
    /\ last_raiser # 0
    /\ pot = 0
    /\ SumChips(players) > 0

\* C32: during a betting round that starts from a set-up hand, a player is
\* all-in exactly when the player has no chips, and chips are never negative.
AllInIffNoChips ==
    (pc \in RoundPcs \cup {"betting_round", "determine_winner"})
    => \A i \in Seats :
          /\ players[i].chips >= 0
          /\ players[i].is_all_in <=> players[i].chips = 0

\* C32 witness: in mid-round one player is all-in with no chips after
\* calling with the exact stack, another still has chips
AllInWithExactStack ==
    /\ pc = "sweep"
    /\ decision.decision = "call"
    /\ \E i, j \in Seats :
          /\ players[i].is_all_in
          /\ players[i].chips = 0
          /\ players[i].current_bet = decision.amount
          /\ ~players[j].is_all_in
          /\ players[j].chips > 0

\* C33: during a betting round under the human and automated policies the
\* table bet is the highest current bet of all the players, folded and
\* all-in ones included; nobody's bet exceeds it.
TableBetIsHighestBet ==
    (pc \in RoundPcs \cup {"betting_round", "determine_winner"})
    => /\ \A i \in Seats : players[i].current_bet <= current_bet
       /\ \E i \in Seats : players[i].current_bet = current_bet

\* C33 witness: the table bet is the last raiser's bet, above the bet that
\* another player made earlier in the round
TableBetAboveFolded ==
    /\ pc \in {"sweep", "determine_winner"}
    /\ current_bet > 0
    /\ last_raiser \in Seats
    /\ players[last_raiser].current_bet = current_bet
    /\ \E i \in Seats :
          /\ i # last_raiser
          /\ players[i].current_bet > 0
          /\ players[i].current_bet < current_bet

\* C34: the dealer position is always a valid index into the roster, also
\* during a hand whose setup_hand has just removed players with no chips.
DealerIndexValid ==
    /\ 0 <= dealer_position
    /\ dealer_position < Len(players)


\* C35: with the players' own decision policies, no player is asked for a
\* decision twice without a raise in between (a player who is being asked has
\* not acted since the last raise, or since the round started), and a sweep
\* is followed by another sweep only if it held a raise: the round ends at
\* the latest with the sweep after the one of the last raise.
AskedOncePerRaise ==
    /\ [](pc \in {"process"} \cup InputPcs => idx \notin players_acted)
    /\ [][pc = "sweep" /\ idx = Len(players) + 1 /\ pc' = "sweep"
             => ~all_called]_vars

\* the round is over after a raise from a later seat and, in the sweep after
\* it, the answer of the first seat
SecondSweepEndedRound ==
    /\ pc = "determine_winner"
    /\ last_raiser > 1
    /\ 1 \in players_acted
    /\ Cardinality(Standing) >= 2
    /\ \A i \in Seats : players[i].current_bet <= current_bet
====
